---- MODULE Spec2Model ----
(***************************************************************************)
(* Model of mp3-duration-reporter (src/src/main.rs).                       *)
(*                                                                         *)
(* One main task creates the output file, writes the header, creates the   *)
(* bounded mpsc channel and spawns the dispatcher task.  The dispatcher    *)
(* enumerates the directory and spawns one worker task per entry whose     *)
(* extension is mp3.  Each worker reads its file, decodes the duration and *)
(* sends (path, duration) on the channel.  The main task drains the        *)
(* channel, appends one row per result, accumulates the total and prints   *)
(* it once recv() reports the channel closed and empty.                    *)
(*                                                                         *)
(* A panic (expect/unwrap) in a spawned task ends that task only: its      *)
(* JoinHandle is dropped at the spawn, so nobody observes the panic; the   *)
(* task's Sender is dropped during unwinding.  A panic in main ends the    *)
(* process with an error status.                                           *)
(*                                                                         *)
(* tokio::fs::File hands each write to a background blocking operation:    *)
(* the write call returns once the bytes are handed over, and the next     *)
(* operation on the file first waits for the one in flight.  `pending`     *)
(* holds the line in flight, `file` what has reached the file.  The        *)
(* program never calls flush.  A write error is taken at the call, where   *)
(* the source's expect handles it.                                         *)
(*                                                                         *)
(* A path is modelled by its final component, a sequence of characters;    *)
(* the directory prefix is the same for all entries.  Option values are    *)
(* sets: {} is None / Err, {v} is Some(v) / Ok(v).  Durations in the model *)
(* stay far below 2^64, so the u64 addition never wraps.                   *)
(***************************************************************************)
EXTENDS Naturals, Sequences, FiniteSets

\* main.rs:20
CHANNEL_LEN == 1000000

\* main.rs:49, the header line
Header == [text |-> "clip\tduration[ms]\n"]

\* Largest number of directory entries explored.
MaxEntries == 3

(***************************************************************************)
(* Paths                                                                   *)
(***************************************************************************)

\* u8::to_ascii_lowercase on the characters that occur in the model
LowerChar(c) ==
  CASE c = "M" -> "m"
    [] c = "P" -> "p"
    [] c = "B" -> "b"
    [] OTHER -> c

\* str::to_ascii_lowercase (main.rs:68)
to_ascii_lowercase(s) == [i \in 1..Len(s) |-> LowerChar(s[i])]

\* Index of the last "." of a name, 0 when there is none
LastDot(name) ==
  LET dots == {i \in 1..Len(name) : name[i] = "."}
  IN  IF dots = {} THEN 0 ELSE CHOOSE i \in dots : \A j \in dots : j <= i

\* Utf8Path::extension (main.rs:68): None when the name has no ".", or when
\* its only "." is the first character; otherwise what follows the last "."
extension(name) ==
  LET d == LastDot(name)
  IN  IF d <= 1 THEN {} ELSE {SubSeq(name, d + 1, Len(name))}

\* The dispatcher's test (main.rs:68), TRUE when the entry is not skipped
IsMp3(name) ==
  {to_ascii_lowercase(e) : e \in extension(name)} = {<<"m", "p", "3">>}

\* Utf8PathBuf::from_path_buf succeeds (main.rs:65)
IsUtf8(name) == \A i \in 1..Len(name) : name[i] # "\\xFF"

\* format!("{filename}\t{duration}\n") (main.rs:106): one data row
Line(path, duration) == [clip |-> path, duration |-> duration]

(***************************************************************************)
(* The directory                                                           *)
(***************************************************************************)

F(name, kind, readable, decode) ==
  [name |-> name, kind |-> kind, readable |-> readable, decode |-> decode]

\* Entries a directory is built from.  decode is the decoder's answer on the
\* entry's bytes: {} for a decode error, {ms} for a duration.
Pool ==
  { F(<<"a", ".", "m", "p", "3">>,      "file", TRUE,  {5}),
    F(<<"b", ".", "M", "P", "3">>,      "file", TRUE,  {15}),
    F(<<"n", ".", "t", "x", "t">>,      "file", TRUE,  {}),
    F(<<"x", ".", "m", "p", "3">>,      "file", TRUE,  {}),
    F(<<"l", ".", "m", "p", "3">>,      "file", FALSE, {7}),
    F(<<"d", ".", "m", "p", "3">>,      "dir",  TRUE,  {}),
    F(<<".", "m", "p", "3">>,           "file", TRUE,  {3}),
    F(<<"m", "p", "3">>,                "file", TRUE,  {3}),
    F(<<"\\xFF", ".", "m", "p", "3">>,  "file", TRUE,  {3}) }

RECURSIVE SeqsNoDup(_, _)
\* The sequences of at most n pairwise distinct elements of S: a directory
\* holds each name once, in whatever order read_dir yields the entries
SeqsNoDup(S, n) ==
  IF n = 0 THEN {<<>>}
  ELSE LET shorter == SeqsNoDup(S, n - 1)
       IN  shorter \cup
           UNION {{Append(s, e) : e \in S \ {s[i] : i \in 1..Len(s)}} :
                    s \in {t \in shorter : Len(t) = n - 1}}

Directories == SeqsNoDup(Pool, MaxEntries)

(***************************************************************************)
(* State                                                                   *)
(***************************************************************************)

VARIABLES
  dir,         \* the entries of the directory, in enumeration order
  dirExists,   \* whether read_dir can open the directory
  cap,         \* capacity of the channel
  mainPc,      \* position of the main task
  dispPc,      \* position of the dispatcher task
  idx,         \* number of entries next_entry has yielded
  w,           \* position of each worker task, by entry index
  wdur,        \* each worker's local `duration`
  senders,     \* live Sender handles of the channel
  chan,        \* results queued in the channel
  cur,         \* the (path, duration) main holds between recv and write
  total,       \* main's `total`
  fileExists,  \* whether the output file has been created
  file,        \* the lines that have reached the output file
  pending,     \* the line handed to the file and not yet written
  stdout,      \* what println! has printed
  exitStatus,  \* "running", "success" or "error"
  sendCount,   \* history: completed sends of each worker
  sendLog,     \* history: results in the order the sends completed
  recvLog      \* history: results in the order recv returned them

vars == <<dir, dirExists, cap, mainPc, dispPc, idx, w, wdur, senders, chan,
          cur, total, fileExists, file, pending, stdout, exitStatus,
          sendCount, sendLog, recvLog>>

env == <<dir, dirExists, cap>>
mainVars == <<mainPc, cur, total, stdout, exitStatus, recvLog>>
fileVars == <<fileExists, file, pending>>
dispVars == <<dispPc, idx>>
workerVars == <<w, wdur, sendCount, sendLog>>

Entries == 1..Len(dir)

Running == exitStatus = "running"

InitCommon ==
  /\ dir \in Directories
  /\ dirExists \in BOOLEAN
  /\ mainPc = "create"
  /\ dispPc = "unspawned"
  /\ idx = 0
  /\ w = [i \in Entries |-> "none"]
  /\ wdur = [i \in Entries |-> 0]
  /\ senders = 0
  /\ chan = <<>>
  /\ cur = {}
  /\ total = 0
  /\ fileExists = FALSE
  /\ file = <<>>
  /\ pending = <<>>
  /\ stdout = <<>>
  /\ exitStatus = "running"
  /\ sendCount = [i \in Entries |-> 0]
  /\ sendLog = <<>>
  /\ recvLog = <<>>

Init == InitCommon /\ cap = CHANNEL_LEN

(***************************************************************************)
(* The main task up to the spawn of the dispatcher                         *)
(***************************************************************************)

\* A panic of the main task: the process ends with an error status
MainPanic ==
  /\ mainPc' = "panicked"
  /\ exitStatus' = "error"

\* File::create(&out_path).await succeeds (main.rs:43-45)
MainCreate ==
  /\ Running /\ mainPc = "create"
  /\ fileExists' = TRUE
  /\ file' = <<>>
  /\ mainPc' = "header"
  /\ UNCHANGED <<env, dispVars, workerVars, senders, chan, cur, total,
                 pending, stdout, exitStatus, recvLog>>

\* File::create fails, e.g. the parent directory is missing (main.rs:45)
MainCreateFail ==
  /\ Running /\ mainPc = "create"
  /\ MainPanic
  /\ UNCHANGED <<env, dispVars, workerVars, senders, chan, cur, total,
                 fileVars, stdout, recvLog>>

\* MainHeader with the header write left out
MainHeaderSkipped ==
  /\ Running /\ mainPc = "header"
  /\ pending = <<>>
  /\ mainPc' = "spawn"
  /\ UNCHANGED <<env, dispVars, workerVars, senders, chan, cur, total,
                 fileVars, stdout, exitStatus, recvLog>>

\* out_file.write(header).await (main.rs:48-51)
MainHeader ==
  /\ Running /\ mainPc = "header"
  /\ pending = <<>>
  /\ pending' = <<Header>>
  /\ mainPc' = "spawn"
  /\ UNCHANGED <<env, dispVars, workerVars, senders, chan, cur, total,
                 fileExists, file, stdout, exitStatus, recvLog>>

\* the header write fails (main.rs:51)
MainHeaderFail ==
  /\ Running /\ mainPc = "header"
  /\ MainPanic
  /\ UNCHANGED <<env, dispVars, workerVars, senders, chan, cur, total,
                 fileVars, stdout, recvLog>>

\* mpsc::channel(CHANNEL_LEN) and tokio::spawn of the dispatcher, which
\* takes the only Sender (main.rs:53-55); `let mut total = 0` (main.rs:103)
MainSpawn ==
  /\ Running /\ mainPc = "spawn"
  /\ chan' = <<>>
  /\ senders' = 1
  /\ dispPc' = "open"
  /\ total' = 0
  /\ mainPc' = "recv"
  /\ UNCHANGED <<env, idx, workerVars, cur, fileVars, stdout, exitStatus,
                 recvLog>>

\* The background write of the line in flight completes
FileWriteComplete ==
  /\ Running
  /\ pending # <<>>
  /\ file' = file \o pending
  /\ pending' = <<>>
  /\ UNCHANGED <<env, mainVars, dispVars, workerVars, senders, chan,
                 fileExists>>

(***************************************************************************)
(* The dispatcher task (main.rs:55-101)                                    *)
(***************************************************************************)

\* The dispatcher task ends, by returning or by unwinding from a panic: the
\* Sender it owns is dropped
DispEnd(pc) ==
  /\ dispPc' = pc
  /\ senders' = senders - 1

\* read_dir(&path).await succeeds (main.rs:56-58)
DispOpen ==
  /\ Running /\ dispPc = "open"
  /\ dirExists
  /\ dispPc' = "enum"
  /\ UNCHANGED <<env, mainVars, fileVars, idx, workerVars, senders, chan>>

\* read_dir fails: expect("path needs to exist") panics the task (main.rs:58)
DispOpenFail ==
  /\ Running /\ dispPc = "open"
  /\ ~dirExists
  /\ DispEnd("panicked")
  /\ UNCHANGED <<env, mainVars, fileVars, idx, workerVars, chan>>

\* next_entry() returns an error: the expect panics the task (main.rs:60-63)
DispNextErr ==
  /\ Running /\ dispPc = "enum"
  /\ idx < Len(dir)
  /\ DispEnd("panicked")
  /\ UNCHANGED <<env, mainVars, fileVars, idx, workerVars, chan>>

\* DispNextNone with the dispatcher's Sender kept alive after the scan (as
\* when main keeps the original Sender and hands out clones only)
DispNextNoneLeak ==
  /\ Running /\ dispPc = "enum"
  /\ idx = Len(dir)
  /\ dispPc' = "done"
  /\ UNCHANGED <<env, mainVars, fileVars, idx, workerVars, senders, chan>>

\* next_entry() returns None: the loop and the task end (main.rs:60, 101)
DispNextNone ==
  /\ Running /\ dispPc = "enum"
  /\ idx = Len(dir)
  /\ DispEnd("done")
  /\ UNCHANGED <<env, mainVars, fileVars, idx, workerVars, chan>>

\* the entry's path is not UTF-8: the expect panics the task (main.rs:65-66)
DispNonUtf8 ==
  /\ Running /\ dispPc = "enum"
  /\ idx < Len(dir)
  /\ ~IsUtf8(dir[idx + 1].name)
  /\ idx' = idx + 1
  /\ DispEnd("panicked")
  /\ UNCHANGED <<env, mainVars, fileVars, workerVars, chan>>

\* the entry's extension is not mp3: skipped (main.rs:68-71)
DispSkip ==
  /\ Running /\ dispPc = "enum"
  /\ idx < Len(dir)
  /\ IsUtf8(dir[idx + 1].name)
  /\ ~IsMp3(dir[idx + 1].name)
  /\ idx' = idx + 1
  /\ UNCHANGED <<env, mainVars, fileVars, dispPc, workerVars, senders, chan>>

\* the entry's extension is mp3: the Sender is cloned and a worker task is
\* spawned for it (main.rs:73-76)
DispSpawn ==
  /\ Running /\ dispPc = "enum"
  /\ idx < Len(dir)
  /\ IsUtf8(dir[idx + 1].name)
  /\ IsMp3(dir[idx + 1].name)
  /\ idx' = idx + 1
  /\ senders' = senders + 1
  /\ w' = [w EXCEPT ![idx + 1] = "spawned"]
  /\ UNCHANGED <<env, mainVars, fileVars, dispPc, wdur, sendCount, sendLog, chan>>

(***************************************************************************)
(* The worker tasks (main.rs:76-99)                                        *)
(***************************************************************************)

\* tokio::fs::read(&path) succeeds: only on a readable regular file
ReadOk(e) == e.kind = "file" /\ e.readable

\* tokio::fs::read(&path).await returns the bytes (main.rs:80-82)
WorkerRead(i) ==
  /\ Running /\ w[i] = "spawned"
  /\ ReadOk(dir[i])
  /\ w' = [w EXCEPT ![i] = "read"]
  /\ UNCHANGED <<env, mainVars, fileVars, dispVars, wdur, sendCount, sendLog,
                 senders, chan>>

\* WorkerReadFail with the worker's Sender clone never dropped
WorkerReadFailLeak(i) ==
  /\ Running /\ w[i] = "spawned"
  /\ ~ReadOk(dir[i])
  /\ w' = [w EXCEPT ![i] = "panicked"]
  /\ UNCHANGED <<env, mainVars, fileVars, dispVars, wdur, sendCount, sendLog,
                 senders, chan>>

\* the read fails: expect("failed to read mp3 file") panics the task, whose
\* Sender clone is dropped (main.rs:82)
WorkerReadFail(i) ==
  /\ Running /\ w[i] = "spawned"
  /\ ~ReadOk(dir[i])
  /\ w' = [w EXCEPT ![i] = "panicked"]
  /\ senders' = senders - 1
  /\ UNCHANGED <<env, mainVars, fileVars, dispVars, wdur, sendCount, sendLog, chan>>

\* the match on mp3_duration::from_read (main.rs:86-92): the duration in
\* milliseconds, or 0 on a decode error
DecodedDuration(e) ==
  IF e.decode = {} THEN 0 ELSE CHOOSE d \in e.decode : TRUE

\* WorkerDecode with the decode result unwrapped: a decode error panics
\* the task instead of yielding 0
WorkerDecodeUnwrap(i) ==
  /\ Running /\ w[i] = "read"
  /\ IF dir[i].decode = {}
     THEN /\ w' = [w EXCEPT ![i] = "panicked"]
          /\ senders' = senders - 1
          /\ wdur' = wdur
     ELSE /\ wdur' = [wdur EXCEPT ![i] = DecodedDuration(dir[i])]
          /\ w' = [w EXCEPT ![i] = "decoded"]
          /\ senders' = senders
  /\ UNCHANGED <<env, mainVars, fileVars, dispVars, sendCount, sendLog, chan>>

\* let duration = match ... (main.rs:86-94)
WorkerDecode(i) ==
  /\ Running /\ w[i] = "read"
  /\ wdur' = [wdur EXCEPT ![i] = DecodedDuration(dir[i])]
  /\ w' = [w EXCEPT ![i] = "decoded"]
  /\ UNCHANGED <<env, mainVars, fileVars, dispVars, sendCount, sendLog, senders, chan>>

\* WorkerSend with try_send on a one-slot channel in place of send().await:
\* the result is dropped when another result is queued
WorkerSendLossy(i) ==
  /\ Running /\ w[i] = "decoded"
  /\ IF chan = <<>>
     THEN /\ chan' = Append(chan, [path |-> dir[i].name, duration |-> wdur[i]])
          /\ sendCount' = [sendCount EXCEPT ![i] = @ + 1]
          /\ sendLog' = Append(sendLog,
                               [path |-> dir[i].name, duration |-> wdur[i]])
     ELSE UNCHANGED <<chan, sendCount, sendLog>>
  /\ w' = [w EXCEPT ![i] = "done"]
  /\ senders' = senders - 1
  /\ UNCHANGED <<env, mainVars, fileVars, dispVars, wdur>>

\* WorkerSend also adding its duration to the total, as with a total
\* shared between the tasks
WorkerSendAddsTotal(i) ==
  /\ Running /\ w[i] = "decoded"
  /\ Len(chan) < cap
  /\ chan' = Append(chan, [path |-> dir[i].name, duration |-> wdur[i]])
  /\ sendCount' = [sendCount EXCEPT ![i] = @ + 1]
  /\ sendLog' = Append(sendLog, [path |-> dir[i].name, duration |-> wdur[i]])
  /\ w' = [w EXCEPT ![i] = "done"]
  /\ senders' = senders - 1
  /\ total' = total + wdur[i]
  /\ UNCHANGED <<env, mainPc, cur, stdout, exitStatus, recvLog, fileVars,
                 dispVars, wdur>>

\* WorkerSend on an unbounded channel: the send never waits for a slot
WorkerSendUnbounded(i) ==
  /\ Running /\ w[i] = "decoded"
  /\ chan' = Append(chan, [path |-> dir[i].name, duration |-> wdur[i]])
  /\ sendCount' = [sendCount EXCEPT ![i] = @ + 1]
  /\ sendLog' = Append(sendLog, [path |-> dir[i].name, duration |-> wdur[i]])
  /\ w' = [w EXCEPT ![i] = "done"]
  /\ senders' = senders - 1
  /\ UNCHANGED <<env, mainVars, fileVars, dispVars, wdur>>

\* sender.send((path, duration)).await completes once the channel has a
\* free slot; the task then ends and drops its Sender clone (main.rs:96-97)
WorkerSend(i) ==
  /\ Running /\ w[i] = "decoded"
  /\ Len(chan) < cap
  /\ chan' = Append(chan, [path |-> dir[i].name, duration |-> wdur[i]])
  /\ sendCount' = [sendCount EXCEPT ![i] = @ + 1]
  /\ sendLog' = Append(sendLog, [path |-> dir[i].name, duration |-> wdur[i]])
  /\ w' = [w EXCEPT ![i] = "done"]
  /\ senders' = senders - 1
  /\ UNCHANGED <<env, mainVars, fileVars, dispVars, wdur>>

(***************************************************************************)
(* The writer loop of the main task (main.rs:103-120)                      *)
(***************************************************************************)

\* MainRecv taking the newest queued result instead of the oldest
MainRecvNewest ==
  /\ Running /\ mainPc = "recv"
  /\ chan # <<>>
  /\ cur' = {chan[Len(chan)]}
  /\ recvLog' = Append(recvLog, chan[Len(chan)])
  /\ chan' = SubSeq(chan, 1, Len(chan) - 1)
  /\ mainPc' = "write"
  /\ UNCHANGED <<env, fileVars, dispVars, workerVars, senders, total,
                 stdout, exitStatus>>

\* MainRecv leaving the received result in the channel
MainRecvPeek ==
  /\ Running /\ mainPc = "recv"
  /\ chan # <<>>
  /\ cur' = {Head(chan)}
  /\ recvLog' = Append(recvLog, Head(chan))
  /\ mainPc' = "write"
  /\ UNCHANGED <<env, fileVars, dispVars, workerVars, senders, chan, total,
                 stdout, exitStatus>>

\* MainRecv draining only after every producer task has ended (the tasks
\* joined before the loop)
MainRecvAfterJoin ==
  /\ Running /\ mainPc = "recv"
  /\ chan # <<>>
  /\ dispPc \in {"done", "panicked"}
  /\ \A i \in DOMAIN w : w[i] \in {"none", "done", "panicked"}
  /\ cur' = {Head(chan)}
  /\ recvLog' = Append(recvLog, Head(chan))
  /\ chan' = Tail(chan)
  /\ mainPc' = "write"
  /\ UNCHANGED <<env, fileVars, dispVars, workerVars, senders, total,
                 stdout, exitStatus>>

\* receiver.recv().await returns Some((path, duration)) (main.rs:105)
MainRecv ==
  /\ Running /\ mainPc = "recv"
  /\ chan # <<>>
  /\ cur' = {Head(chan)}
  /\ recvLog' = Append(recvLog, Head(chan))
  /\ chan' = Tail(chan)
  /\ mainPc' = "write"
  /\ UNCHANGED <<env, fileVars, dispVars, workerVars, senders, total,
                 stdout, exitStatus>>

\* MainRecvNone returning None as soon as the channel is empty, whether or
\* not a Sender is still alive
MainRecvNoneEarly ==
  /\ Running /\ mainPc = "recv"
  /\ chan = <<>>
  /\ mainPc' = "print"
  /\ UNCHANGED <<env, fileVars, dispVars, workerVars, senders, chan, cur,
                 total, stdout, exitStatus, recvLog>>

\* receiver.recv().await returns None: the channel is empty and every
\* Sender has been dropped (main.rs:105)
MainRecvNone ==
  /\ Running /\ mainPc = "recv"
  /\ chan = <<>>
  /\ senders = 0
  /\ mainPc' = "print"
  /\ UNCHANGED <<env, fileVars, dispVars, workerVars, senders, chan, cur,
                 total, stdout, exitStatus, recvLog>>

\* MainWrite with `total = duration` in place of `total += duration`
MainWriteAssign ==
  /\ Running /\ mainPc = "write"
  /\ pending = <<>>
  /\ \E r \in cur :
       /\ pending' = <<Line(r.path, r.duration)>>
       /\ total' = r.duration
  /\ cur' = {}
  /\ mainPc' = "recv"
  /\ UNCHANGED <<env, dispVars, workerVars, senders, chan, fileExists, file,
                 stdout, exitStatus, recvLog>>

\* MainWrite without the addition to total (main.rs:115 left out)
MainWriteNoAdd ==
  /\ Running /\ mainPc = "write"
  /\ pending = <<>>
  /\ \E r \in cur : pending' = <<Line(r.path, r.duration)>>
  /\ cur' = {}
  /\ mainPc' = "recv"
  /\ UNCHANGED <<env, dispVars, workerVars, senders, chan, fileExists, file,
                 total, stdout, exitStatus, recvLog>>

\* out_file.write_all(line).await, then total += duration (main.rs:106-115)
MainWrite ==
  /\ Running /\ mainPc = "write"
  /\ pending = <<>>
  /\ \E r \in cur :
       /\ pending' = <<Line(r.path, r.duration)>>
       /\ total' = total + r.duration
  /\ cur' = {}
  /\ mainPc' = "recv"
  /\ UNCHANGED <<env, dispVars, workerVars, senders, chan, fileExists, file,
                 stdout, exitStatus, recvLog>>

\* write_all fails: expect("failed to write to time file") (main.rs:113)
MainWriteFail ==
  /\ Running /\ mainPc = "write"
  /\ MainPanic
  /\ UNCHANGED <<env, dispVars, workerVars, senders, chan, cur, total,
                 fileVars, stdout, recvLog>>

\* println!("{total}") (main.rs:119)
MainPrint ==
  /\ Running /\ mainPc = "print"
  /\ stdout' = Append(stdout, total)
  /\ mainPc' = "exit"
  /\ UNCHANGED <<env, fileVars, dispVars, workerVars, senders, chan, cur,
                 total, exitStatus, recvLog>>

\* main returns (main.rs:120): the runtime shuts down once the file
\* operation in flight has finished, and the process exits with success
MainExit ==
  /\ Running /\ mainPc = "exit"
  /\ pending = <<>>
  /\ mainPc' = "done"
  /\ exitStatus' = "success"
  /\ UNCHANGED <<env, fileVars, dispVars, workerVars, senders, chan, cur,
                 total, stdout, recvLog>>

Next ==
  \/ MainCreate \/ MainCreateFail \/ MainHeader \/ MainHeaderFail
  \/ MainSpawn \/ FileWriteComplete
  \/ DispOpen \/ DispOpenFail \/ DispNextErr \/ DispNextNone
  \/ DispNonUtf8 \/ DispSkip \/ DispSpawn
  \/ \E i \in Entries : WorkerRead(i)
  \/ \E i \in Entries : WorkerReadFail(i)
  \/ \E i \in Entries : WorkerDecode(i)
  \/ \E i \in Entries : WorkerSend(i)
  \/ MainRecv \/ MainRecvNone \/ MainWrite \/ MainWriteFail
  \/ MainPrint \/ MainExit

Spec == Init /\ [][Next]_vars

\* Largest channel capacity explored by the specifications that let the
\* channel fill
MaxCap == 2

\* The program with a channel of a small capacity: the code of the
\* pipeline is the same for every value of CHANNEL_LEN
InitCap == InitCommon /\ cap \in 1..MaxCap

SpecCap == InitCap /\ [][Next]_vars

\* The tokio scheduler runs every task that is ready and the background
\* file operation completes: some enabled step is eventually taken.  A step
\* never undoes another, so this is enough for every task to progress.
Fairness == WF_vars(Next)

FairSpec == Spec /\ Fairness

FairSpecCap == SpecCap /\ Fairness

TypeOK ==
  /\ mainPc \in {"create", "header", "spawn", "recv", "write", "print",
                 "exit", "done", "panicked"}
  /\ dispPc \in {"unspawned", "open", "enum", "done", "panicked"}
  /\ idx \in 0..Len(dir)
  /\ \A i \in Entries :
       w[i] \in {"none", "spawned", "read", "decoded", "done", "panicked"}
  /\ senders \in 0..(Len(dir) + 1)
  /\ Len(chan) <= cap
  /\ Cardinality(cur) <= 1
  /\ Len(pending) <= 1
  /\ exitStatus \in {"running", "success", "error"}

(***************************************************************************)
(* Vocabulary of the properties                                            *)
(***************************************************************************)

IsRow(l) == "clip" \in DOMAIN l

\* The data rows that have reached the output file
DataRows == SelectSeq(file, IsRow)

\* Entries that are regular files with an mp3 extension, in any case
Matching == {i \in Entries : dir[i].kind = "file" /\ IsMp3(dir[i].name)}

\* Entries for which the dispatcher has spawned a worker
Spawned == {i \in Entries : w[i] # "none"}

\* The duration a file contributes: what the decoder reports for its bytes,
\* 0 when the decoder rejects them or the bytes could not be read
Millis(e) ==
  IF e.kind = "file" /\ e.readable /\ e.decode # {}
  THEN CHOOSE d \in e.decode : TRUE
  ELSE 0

RECURSIVE SumMillis(_)
SumMillis(I) ==
  IF I = {} THEN 0
  ELSE LET i == CHOOSE j \in I : TRUE
       IN  Millis(dir[i]) + SumMillis(I \ {i})

\* The number of rows of the file that name entry i
RowsOf(i) == Cardinality({k \in 1..Len(file) :
                            IsRow(file[k]) /\ file[k].clip = dir[i].name})

RowsFor(results) == [k \in 1..Len(results) |->
                       Line(results[k].path, results[k].duration)]

\* The run has ended with a success status
Completed == mainPc = "done"

\* The process has ended
Ended == mainPc \in {"done", "panicked"}

(***************************************************************************)
(* Properties                                                              *)
(***************************************************************************)

\* C1: when the run completes, the number of data rows of the output file
\* equals the number of entries that are regular files with an mp3
\* extension (any case).
RowCountMatchesDirectory ==
  (Completed /\ dirExists) => Len(DataRows) = Cardinality(Matching)

\* C2: the total printed at the end of the run is the sum of the durations
\* of the files the dispatcher classified as mp3 (a file whose bytes could
\* not be decoded, or not be read, counting as 0), whatever the order in
\* which the workers send.
PrintedTotalIsSum ==
  mainPc \in {"exit", "done"} => stdout = <<SumMillis(Spawned)>>

\* witness of C2: a completed run whose results arrived in an order other
\* than the enumeration order and whose total is not zero
PrintedTotalIsSumWitness ==
  /\ Completed
  /\ Len(recvLog) = 2
  /\ \E i, j \in Spawned :
       /\ i < j
       /\ recvLog[1].path = dir[j].name
       /\ recvLog[2].path = dir[i].name
       /\ recvLog[1].duration > 0 /\ recvLog[2].duration > 0
  /\ stdout = <<recvLog[1].duration + recvLog[2].duration>>

\* C3: every spawned worker that has terminated has performed exactly one
\* send, on every path through the worker.
TerminatedWorkerSentOnce ==
  \A i \in Entries : w[i] \in {"done", "panicked"} => sendCount[i] = 1

\* C4: a decode failure is absorbed.  The worker of a file that was read
\* never fails, a decode failure leaves it with duration 0, the run is
\* never stuck while such a worker exists, and when the run completes every
\* file that was read has exactly one row, with its own duration (0 for the
\* file that failed to decode), and the total has been printed.
DecodeFailureAbsorbed ==
  /\ \A i \in Spawned : ReadOk(dir[i]) => w[i] # "panicked"
  /\ \A i \in Spawned :
       (dir[i].decode = {} /\ w[i] \in {"decoded", "done"}) => wdur[i] = 0
  /\ (\E i \in Spawned : ReadOk(dir[i]) /\ dir[i].decode = {})
       => (Ended \/ ENABLED Next)
  /\ Completed =>
       /\ \A i \in Spawned : ReadOk(dir[i]) =>
            /\ RowsOf(i) = 1
            /\ \E k \in 1..Len(file) :
                 file[k] = Line(dir[i].name, Millis(dir[i]))
       /\ Len(stdout) = 1

\* witness of C4: a completed run with a row of duration 0 for a file that
\* failed to decode, next to the row of another file with its own duration
DecodeFailureAbsorbedWitness ==
  /\ Completed
  /\ \E i, j \in Spawned :
       /\ ReadOk(dir[i]) /\ dir[i].decode = {}
       /\ ReadOk(dir[j]) /\ dir[j].decode # {}
       /\ \E k, m \in 1..Len(file) :
            /\ file[k] = Line(dir[i].name, 0)
            /\ file[m] = Line(dir[j].name, Millis(dir[j]))
            /\ Millis(dir[j]) > 0

\* C5: when the directory cannot be opened, the process ends with an error
\* status, no output file has been created and no total has been printed
\* (stated of the ended process, after read_dir has failed).
MissingDirectoryIsFatal ==
  (~dirExists /\ dispPc = "panicked" /\ Ended) =>
    (exitStatus = "error" /\ ~fileExists /\ stdout = <<>>)

\* C6: when the dispatcher fails during the scan (enumeration error, or an
\* entry whose path is not text), the run ends with an error status and no
\* total is printed.
ScanFailureIsFatal ==
  (dirExists /\ dispPc = "panicked") =>
    (stdout = <<>> /\ exitStatus # "success")

\* C7: when a worker fails to read its file, either the run is aborted or
\* the file has a row with duration 0: the run never completes successfully
\* with that file's row missing.
ReadFailureAbortsOrZero ==
  Completed =>
    \A i \in Entries : w[i] = "panicked" =>
      \E k \in 1..Len(file) : file[k] = Line(dir[i].name, 0)

\* C8: the total is printed exactly once, and only after the header and the
\* row of every consumed result have been fully written to the output file:
\* no write is pending at the print or after it.
PrintAfterFileWritten ==
  stdout # <<>> =>
    /\ Len(stdout) = 1
    /\ pending = <<>>
    /\ file = <<Header>> \o RowsFor(recvLog)

\* The results whose row main has handed to the file
Consumed ==
  IF cur = {} THEN recvLog ELSE SubSeq(recvLog, 1, Len(recvLog) - 1)

\* C9: the header precedes every data row, there is one line per consumed
\* result, and the rows are in the order in which the writer received the
\* results, which is the order in which the sends completed.
RowsInReceiveOrder ==
  dispPc # "unspawned" =>
    /\ file \o pending = <<Header>> \o RowsFor(Consumed)
    /\ sendLog = recvLog \o chan

\* witness of C9: a completed run with two rows that are not in enumeration
\* order
RowsInReceiveOrderWitness ==
  /\ Completed
  /\ Len(file) = 3
  /\ \E i, j \in Spawned :
       /\ i < j
       /\ file[2].clip = dir[j].name
       /\ file[3].clip = dir[i].name

\* No entry of the directory has an mp3 extension
NoMatch == \A i \in Entries : ~IsMp3(dir[i].name)

\* C10: for a directory with no matching file (empty, or only non-mp3
\* entries) the run is never stuck, and when it completes the output file
\* holds the header line only and the printed total is 0.
EmptyDirectoryHeaderOnly ==
  (dirExists /\ NoMatch) =>
    /\ Ended \/ ENABLED Next
    /\ Completed => (file = <<Header>> /\ stdout = <<0>>)

\* witness of C10: a completed run over a directory that holds only
\* entries without an mp3 extension
EmptyDirectoryHeaderOnlyWitness ==
  /\ dirExists /\ NoMatch /\ Completed
  /\ Len(dir) > 0
  /\ idx = Len(dir)
  /\ file = <<Header>> /\ stdout = <<0>>

\* witness of C10 on the empty directory
EmptyDirectoryWitness ==
  /\ dirExists /\ dir = <<>> /\ Completed
  /\ file = <<Header>> /\ stdout = <<0>>

\* The entries the dispatcher reaches when next_entry reports no error: all
\* of them up to the first whose name is not UTF-8
Scanned ==
  {i \in Entries : \A j \in 1..i : IsUtf8(dir[j].name)}

\* The rows a run over the directory produces, as a function of the
\* directory alone
ExpectedRows ==
  IF dirExists
  THEN {Line(dir[i].name, Millis(dir[i])) :
          i \in {j \in Scanned : IsMp3(dir[j].name) /\ ReadOk(dir[j])}}
  ELSE {}

RECURSIVE SumDuration(_)
SumDuration(R) ==
  IF R = {} THEN 0
  ELSE LET r == CHOOSE x \in R : TRUE
       IN  r.duration + SumDuration(R \ {r})

\* next_entry has reported an error in this run
EnumError ==
  /\ dirExists /\ dispPc = "panicked"
  /\ (idx = 0 \/ IsUtf8(dir[idx].name))

\* C11: determinism across runs.  For an unchanged directory (and no
\* transient enumeration error) every completed run, whatever its
\* interleaving, ends with the same multiset of (name, duration) rows and
\* the same printed total: both are functions of the directory alone.
RunsAgree ==
  (Completed /\ ~EnumError) =>
    /\ {DataRows[k] : k \in 1..Len(DataRows)} = ExpectedRows
    /\ Len(DataRows) = Cardinality(ExpectedRows)
    /\ stdout = <<SumDuration(ExpectedRows)>>

\* witness of C11: a completed run without enumeration error whose two
\* rows are in the reverse of the enumeration order, so that another run
\* of the same directory has them in the other order
RunsAgreeWitness ==
  /\ Completed /\ dispPc = "done"
  /\ Len(DataRows) = 2
  /\ \E i, j \in Spawned :
       /\ i < j
       /\ DataRows[1].clip = dir[j].name
       /\ DataRows[2].clip = dir[i].name
  /\ Cardinality(ExpectedRows) = 2

\* Dispatcher and workers that can still send or spawn
DispLive == dispPc \in {"open", "enum"}
LiveWorkers == {i \in Entries : w[i] \in {"spawned", "read", "decoded"}}

\* C12: the writer's loop ends (recv has returned None) only after the
\* dispatcher has stopped issuing workers, every spawned worker has
\* terminated and the channel is empty; until then the writer stays in the
\* loop.
DrainEndsAfterAllSenders ==
  mainPc \in {"print", "exit", "done"} =>
    /\ ~DispLive /\ dispPc # "unspawned"
    /\ LiveWorkers = {}
    /\ chan = <<>>
    /\ recvLog = sendLog

\* witness of C12: the loop has ended after two workers have sent and the
\* dispatcher has enumerated the whole directory
DrainEndsAfterAllSendersWitness ==
  /\ mainPc = "print"
  /\ dispPc = "done"
  /\ Cardinality({i \in Entries : w[i] = "done"}) >= 2
  /\ Len(recvLog) >= 2

\* C13: under fair scheduling, for a readable directory, the pipeline
\* eventually ends: once the dispatcher and every worker have terminated
\* the channel is closed, recv returns None instead of blocking, and the
\* total is reported.  The only other end is a panic of main, which only a
\* failure to create or write the output file causes.
PipelineCompletes ==
  /\ dirExists => <>(Completed \/ mainPc = "panicked")
  /\ [](Completed => (senders = 0 /\ chan = <<>> /\ Len(stdout) = 1))

\* witness of C13: a run over a readable, fully enumerated directory has
\* reached Complete with the total reported
PipelineCompletesWitness ==
  /\ dirExists /\ dispPc = "done" /\ idx = Len(dir)
  /\ Completed
  /\ senders = 0
  /\ \E i \in Entries : w[i] = "done"
  /\ stdout = <<total>>

\* How many results of a sequence carry the path of entry i
InSeq(results, i) ==
  Cardinality({k \in 1..Len(results) : results[k].path = dir[i].name})

\* How many rows handed to the output file name entry i
Appended(i) ==
  LET lines == file \o pending
  IN  Cardinality({k \in 1..Len(lines) :
                     IsRow(lines[k]) /\ lines[k].clip = dir[i].name})

\* How many results main holds between recv and the append that name i
InHand(i) == Cardinality({r \in cur : r.path = dir[i].name})

RECURSIVE SeqSum(_)
SeqSum(results) ==
  IF results = <<>> THEN 0
  ELSE Head(results).duration + SeqSum(Tail(results))

\* C14, as stated: in every reachable state each result a worker has sent
\* is either still in the channel or has been appended to the output file
\* and added to the total, never both and never neither.
ResultInChannelOrFile ==
  /\ \A i \in Entries : sendCount[i] = 1 =>
       InSeq(chan, i) + Appended(i) = 1
  /\ total = SeqSum(Consumed)

\* C14, amended: each result a worker has sent is in exactly one of three
\* places: still in the channel, held by the writer between recv and the
\* append of its row, or appended to the output file and added to the
\* total.  It is received exactly once, and nothing that was not sent is
\* queued, received or appended.
ResultInOnePlace ==
  /\ \A i \in Entries :
       /\ sendCount[i] <= 1
       /\ InSeq(chan, i) + InHand(i) + Appended(i) = sendCount[i]
       /\ InSeq(chan, i) + InSeq(recvLog, i) = sendCount[i]
       /\ InSeq(Consumed, i) = Appended(i)
  /\ total = SeqSum(Consumed)

\* witness of C14: one result is queued, one is held by the writer and one
\* has been appended and added to the total
ResultInOnePlaceWitness ==
  \E i, j, k \in Entries :
    /\ InSeq(chan, i) = 1
    /\ InHand(j) = 1
    /\ Appended(k) = 1
    /\ total = wdur[k] /\ total > 0

\* C15: the dispatcher spawns a worker for an entry if and only if the
\* entry is a regular file whose extension is mp3 in any case; an entry
\* failing the test spawns no worker, produces no result and adds nothing
\* to the total.  (Stated of the entries the dispatcher has classified.)
SpawnIffRegularMp3 ==
  \A i \in 1..idx : IsUtf8(dir[i].name) =>
    /\ (w[i] # "none") <=> (dir[i].kind = "file" /\ IsMp3(dir[i].name))
    /\ ~(dir[i].kind = "file" /\ IsMp3(dir[i].name)) =>
         /\ sendCount[i] = 0
         /\ InSeq(recvLog, i) = 0
         /\ Appended(i) = 0

\* A step of the dispatcher task or of a worker task
ProducerStep ==
  \/ dispPc # "unspawned" /\ dispVars' # dispVars
  \/ workerVars' # workerVars

\* One iteration of the writer's loop body: the row of the result in hand
\* is appended and its duration added, once
WriterAppend ==
  /\ mainPc = "write" /\ mainPc' = "recv"
  /\ pending = <<>>
  /\ \E r \in cur :
       /\ pending' = <<Line(r.path, r.duration)>>
       /\ total' = total + r.duration
  /\ cur' = {}
  /\ file' = file

\* C16: the output file and the running total are changed only by the
\* writer.  Every dispatcher step and every worker step (read, decode,
\* send) leaves both unchanged; a row is appended and the total changed
\* only by the writer's loop body, one row and one addition per consumed
\* result; an append starts only when no other is in flight, and the file
\* itself grows only by the line the writer handed over.
OnlyWriterTouchesFileAndTotal ==
  [][ /\ ProducerStep => UNCHANGED <<fileExists, file, pending, total>>
      /\ (total' # total \/ (cur' # cur /\ cur' = {})) => WriterAppend
      /\ (pending' # pending /\ pending' # <<>>) =>
           /\ pending = <<>> /\ Len(pending') = 1
           /\ IsRow(pending'[1]) => WriterAppend
      /\ file' # file => (file' = file \o pending /\ pending' = <<>>)
    ]_vars

\* witness of C16: the writer has appended a row and added its duration
\* while the dispatcher is still enumerating and a worker is about to send
OnlyWriterTouchesFileAndTotalWitness ==
  /\ dispPc = "enum" /\ idx >= 2
  /\ \E i \in Entries : w[i] = "decoded"
  /\ Len(DataRows) = 1
  /\ total = DataRows[1].duration /\ total > 0

\* Workers whose send is suspended on a full channel
Suspended == {i \in Entries : w[i] = "decoded" /\ Len(chan) = cap}

\* C17: the number of queued results never exceeds the capacity of the
\* channel.  A worker whose send finds the channel full stays suspended
\* with its result kept, neither dropped nor sent, for as long as the
\* channel is full; the only step that changes a full channel is the
\* writer's recv, which frees a slot; a worker that is done has sent once.
SendRespectsCapacity ==
  [][ /\ Len(chan) <= cap /\ Len(chan') <= cap
      /\ \A i \in Suspended :
           /\ w'[i] = "decoded"
           /\ wdur'[i] = wdur[i]
           /\ sendCount[i] = 0 /\ sendCount'[i] = 0
      /\ Len(chan) = cap =>
           /\ sendLog' = sendLog
           /\ chan' # chan => (mainPc = "recv" /\ chan' = Tail(chan))
      /\ \A i \in Entries : w'[i] = "done" => sendCount'[i] = 1
    ]_vars

\* witness of C17: the channel is full and a worker is suspended in send
SendRespectsCapacityWitness ==
  /\ Len(chan) = cap
  /\ Suspended # {}
  /\ mainPc = "recv"

\* witness of C17, continued: a worker that was suspended behind a full
\* one-slot channel has sent after the writer freed the slot
SuspendedSendCompleted ==
  /\ cap = 1 /\ Len(sendLog) = 2 /\ Len(chan) = 1 /\ Len(recvLog) = 1

\* C18: backpressure cannot deadlock the pipeline.  For every capacity of
\* at least 1, also below the number of sending workers, under fair
\* scheduling the run ends, and when it completes no send is still
\* suspended, every sent result has been received and its row appended.
\* (The only other end is a panic of main on an output-file failure.)
BackpressureNoDeadlock ==
  /\ <>(Completed \/ mainPc = "panicked")
  /\ [](Completed =>
          /\ \A i \in Entries : w[i] # "decoded"
          /\ recvLog = sendLog
          /\ \A i \in Entries : Appended(i) = sendCount[i])

\* witness of C18: a run has completed with three results sent through a
\* channel of one slot
BackpressureNoDeadlockWitness ==
  /\ Completed
  /\ cap = 1
  /\ Len(sendLog) = 3
  /\ Len(DataRows) = 3

\* Some spawned task has ended by a panic
TaskFailed ==
  \/ dispPc = "panicked"
  \/ \E i \in Entries : w[i] = "panicked"

\* The writer's loop has ended, or the process has
LoopEnded == mainPc \in {"print", "exit", "done", "panicked"}

\* C19: a task that fails still releases its Sender.  The live Sender
\* handles are exactly those of the tasks still running, a failed worker or
\* dispatcher holding none, and under fair scheduling once a task has
\* failed the writer's loop still ends instead of hanging.
FailedTaskReleasesSender ==
  /\ [](dispPc # "unspawned" =>
          senders = (IF DispLive THEN 1 ELSE 0) + Cardinality(LiveWorkers))
  /\ TaskFailed ~> LoopEnded

\* witness of C19: the dispatcher and a worker have both failed and the
\* run has nevertheless left the loop and completed
FailedTaskReleasesSenderWitness ==
  /\ dispPc = "panicked"
  /\ \E i \in Entries : w[i] = "panicked"
  /\ senders = 0
  /\ Completed

\* The data rows main has appended so far: written, or in flight
AppendedRows == SelectSeq(file \o pending, IsRow)

\* C20: each time the writer is about to receive (at the head of every
\* loop iteration, and when the loop has exited), the running total equals
\* the sum of the durations of the data rows appended so far, and the
\* number of rows appended equals the number of results received.
WriterLoopInvariant ==
  mainPc \in {"recv", "print"} =>
    /\ total = SeqSum(AppendedRows)
    /\ Len(AppendedRows) = Len(recvLog)

\* witness of C20: the writer is at the head of its loop after two
\* iterations, with a further result queued
WriterLoopInvariantWitness ==
  /\ mainPc = "recv"
  /\ Len(recvLog) = 2
  /\ chan # <<>>
  /\ total > 0
  /\ total = recvLog[1].duration + recvLog[2].duration

====
